---- MODULE Spec2Model ----
(***************************************************************************)
(* Model of the DeadLine research pipeline:                                *)
(*   - the details pipeline   (src/app/api/search/details/route.ts)        *)
(*   - the update pipeline    (src/app/api/search/updates/route.ts)        *)
(* Each action is the code of a handler between two suspension points      *)
(* (await).  The external store, the search provider, the article hosts    *)
(* and the LLM answer nondeterministically.                                *)
(***************************************************************************)
EXTENDS Integers, Sequences, FiniteSets, TLC

(***************************************************************************)
(* Bounds of the model                                                     *)
(***************************************************************************)
\* number of requests served in one behaviour
MaxRuns == 2
\* the logical clock (milliseconds since the epoch, abstracted) stops here
MaxClock == 2
\* items a search page may carry
MaxPageItems == 1
\* tokens of an LLM completion
MaxRespLen == 3
\* results of the recency-restricted search of the update pipeline
MaxUpdResults == 2
\* raw search results handed to the Result Filter at once
MaxRawLen == 3
\* articles handed to the prompt
MaxArticles == 16

(***************************************************************************)
(* Program constants                                                       *)
(***************************************************************************)
\* for (let page = 1; page <= 3; page++)
NumPages == 3
\* newsResults.slice(0, 20)
MaxScrape == 20
\* article.content.length > 100
MinContent == 100
\* analysis.title.substring(0, 100)
MaxTitle == 100
\* extractArticleContent: if (!content || content.length < 200)
ParagraphFallback == 200
\* extractArticleContent: if (!content || content.length < 100)
MetaFallback == 100
\* extractArticleContent: content.substring(0, 5000)
MaxContent == 5000
\* analysis.description.substring(0, 1000)
MaxDescription == 1000
\* articles kept for the prompt by the two copies that select
PromptCapA == 15
PromptCapB == 8

Runs == 1..MaxRuns

Min(S) == CHOOSE x \in S : \A y \in S : x <= y
Max(S) == CHOOSE x \in S : \A y \in S : x >= y
SeqsUpTo(S, n) == UNION {[1..k -> S] : k \in 0..n}
Range(s) == {s[i] : i \in 1..Len(s)}

(***************************************************************************)
(* JavaScript string primitives on token sequences.  A completion is a     *)
(* sequence of lexical tokens; "{" and "}" are the brace characters and    *)
(* every other token is brace-free text, so indexOf('{') and               *)
(* lastIndexOf('}') on the text select the same cut as on the tokens.      *)
(***************************************************************************)
indexOf(s, t) ==
  IF \E i \in 1..Len(s) : s[i] = t
    THEN Min({i \in 1..Len(s) : s[i] = t}) - 1
    ELSE -1

lastIndexOf(s, t) ==
  IF \E i \in 1..Len(s) : s[i] = t
    THEN Max({i \in 1..Len(s) : s[i] = t}) - 1
    ELSE -1

\* String.prototype.substring: arguments are clamped to 0..length and
\* swapped when start > end.
substring(s, start, end) ==
  LET clamp(x) == IF x < 0 THEN 0 ELSE IF x > Len(s) THEN Len(s) ELSE x
      a == clamp(start)
      b == clamp(end)
      lo == IF a <= b THEN a ELSE b
      hi == IF a <= b THEN b ELSE a
  IN SubSeq(s, lo + 1, hi)

(***************************************************************************)
(* Synthesis Engine: response handling of processArticlesWithGroq          *)
(***************************************************************************)
\* "key": value members an LLM completion may carry (separators included)
MemberTokens == {"location:str", "location:null", "sources:list"}
\* tokens of a completion: braces, an empty JSON array, the JSON literal
\* null, free prose, members
Tokens == {"{", "}", "[]", "null", "txt"} \cup MemberTokens
LLMResponses == SeqsUpTo(Tokens, MaxRespLen)

MemberKey(t) == IF t = "sources:list" THEN "sources" ELSE "location"
MemberVal(t) ==
  IF t = "location:str" THEN "STR"
  ELSE IF t = "location:null" THEN "NULL"
  ELSE "LIST"

\* a URL only the LLM knows (never fetched)
LLMSourceUrl == "https://made.up/story"

requiredFields == <<"location", "details", "accused", "victims", "timeline">>

\* Array.isArray(EVENT_DETAILS_TEMPLATE[field])
TemplateIsArray(field) == field \in {"accused", "victims", "timeline"}

\* does the token sequence parse as one JSON value
isValidJSON(s) ==
  \/ s = <<"[]">>
  \/ s = <<"null">>
  \/ /\ Len(s) >= 2
     /\ s[1] = "{"
     /\ s[Len(s)] = "}"
     /\ \A i \in 2..(Len(s) - 1) : s[i] \in MemberTokens

\* value of key k in the object text s (a repeated key keeps the last one)
ObjField(s, k) ==
  LET idx == {i \in 2..(Len(s) - 1) : MemberKey(s[i]) = k}
  IN IF idx = {} THEN "ABSENT" ELSE MemberVal(s[Max(idx)])

\* JSON.parse of a valid text: kind of the value and, for an object, the
\* value found under each key ("ABSENT" when the key is not there)
JSONparse(s) ==
  LET kind == IF s = <<"[]">> THEN "array"
              ELSE IF s = <<"null">> THEN "null" ELSE "object"
      get(k) == IF kind = "object" THEN ObjField(s, k) ELSE "ABSENT"
  IN [kind |-> kind,
      location |-> get("location"), details |-> get("details"),
      accused |-> get("accused"), victims |-> get("victims"),
      timeline |-> get("timeline"), sources |-> get("sources")]

NoData ==
  [kind |-> "none", location |-> "ABSENT", details |-> "ABSENT",
   accused |-> "ABSENT", victims |-> "ABSENT", timeline |-> "ABSENT",
   sources |-> "ABSENT"]

\* for (const field of requiredFields) if (!(field in parsedData)) ...
Backfill(d) ==
  LET fill(k, v) == IF v # "ABSENT" THEN v
                    ELSE IF TemplateIsArray(k) THEN "EMPTYLIST" ELSE "EMPTYSTR"
  IN [d EXCEPT !.location = fill("location", @),
               !.details = fill("details", @),
               !.accused = fill("accused", @),
               !.victims = fill("victims", @),
               !.timeline = fill("timeline", @)]

\* processArticlesWithGroq after the completion has arrived.
\* api = "error": groq.chat.completions.create threw.
processArticlesWithGroq(api, response) ==
  LET jsonStart == indexOf(response, "{")
      jsonEnd == lastIndexOf(response, "}") + 1
      jsonString == substring(response, jsonStart, jsonEnd)
      parsedData == JSONparse(jsonString)
  IN IF api = "error"
       THEN [ok |-> FALSE, err |-> "groq_api", data |-> NoData]
     ELSE IF response = <<>>
       THEN [ok |-> FALSE, err |-> "no_response", data |-> NoData]
     ELSE IF jsonStart = -1 \/ jsonEnd = 0
       THEN [ok |-> FALSE, err |-> "no_json_object", data |-> NoData]
     ELSE IF ~isValidJSON(jsonString)
       THEN [ok |-> FALSE, err |-> "invalid_json", data |-> NoData]
     ELSE IF parsedData.kind = "null"
       \* 'location' in null raises a TypeError, caught by the catch block
       THEN [ok |-> FALSE, err |-> "type_error", data |-> NoData]
     ELSE [ok |-> TRUE, err |-> "", data |-> Backfill(parsedData)]

(***************************************************************************)
(* Search Client and Result Filter of searchGoogleAndScrape                *)
(***************************************************************************)
\* items the search provider may return (a missing field is "")
ItemA ==
  [title |-> "Factory fire", link |-> "https://news.example/fire",
   snippet |-> "A fire broke out", displayLink |-> "news.example"]
ItemB ==
  [title |-> "Fire update", link |-> "https://paper.example/fire",
   snippet |-> "Officials said", displayLink |-> "paper.example"]
ItemS ==
  [title |-> "Fire thread", link |-> "https://www.reddit.com/r/news/fire",
   snippet |-> "Discussion", displayLink |-> "www.Reddit.com"]
\* a social host known by the link only: no displayLink, mixed case
ItemT ==
  [title |-> "Fire video", link |-> "https://Twitter.com/a/status/1",
   snippet |-> "Watch", displayLink |-> ""]
RawItems == {ItemA, ItemB, ItemS, ItemT}

\* the link of ItemA under another title and snippet
ItemA2 ==
  [title |-> "Factory fire (syndicated)", link |-> "https://news.example/fire",
   snippet |-> "Agency copy", displayLink |-> "news.example"]
\* a link that differs from ItemA's in letter case only
ItemAU ==
  [title |-> "Factory fire", link |-> "https://news.example/Fire",
   snippet |-> "A fire broke out", displayLink |-> "news.example"]
\* items for which the provider supplied no title, no snippet
ItemNoTitle ==
  [title |-> "", link |-> "https://wire.example/untitled",
   snippet |-> "Fire crews on site", displayLink |-> "wire.example"]
ItemNoSnippet ==
  [title |-> "Fire latest", link |-> "https://wire.example/bare",
   snippet |-> "", displayLink |-> "wire.example"]
\* a social host known by the display domain only
ItemF ==
  [title |-> "Fire post", link |-> "https://l.example/r?u=1",
   snippet |-> "Shared post", displayLink |-> "m.facebook.com"]
\* every item webData.items may hold
ProviderItems ==
  RawItems \cup {ItemA2, ItemAU, ItemNoTitle, ItemNoSnippet, ItemF}

excludeDomains ==
  {"reddit.com", "twitter.com", "facebook.com", "youtube.com",
   "instagram.com", "tiktok.com"}

\* the comparison written without lowering the case
toLowerCaseAsIs(s) == s

\* String.prototype.toLowerCase on the strings of the model
toLowerCase(s) ==
  IF s = "www.Reddit.com" THEN "www.reddit.com"
  ELSE IF s = "https://Twitter.com/a/status/1" THEN "https://twitter.com/a/status/1"
  ELSE IF s = "https://news.example/Fire" THEN "https://news.example/fire"
  ELSE s

\* String.prototype.includes on the strings of the model
includes(s, sub) ==
  <<s, sub>> \in {<<"https://www.reddit.com/r/news/fire", "reddit.com">>,
                  <<"www.reddit.com", "reddit.com">>,
                  <<"https://twitter.com/a/status/1", "twitter.com">>,
                  <<"m.facebook.com", "facebook.com">>}

\* webData.items.map(item => ({ title: item.title || 'No title', ... }))
Normalize(item) ==
  [title |-> IF item.title = "" THEN "No title" ELSE item.title,
   link |-> item.link,
   snippet |-> IF item.snippet = "" THEN "No snippet available" ELSE item.snippet,
   displayLink |-> item.displayLink]

pageResults(items) == [i \in 1..Len(items) |-> Normalize(items[i])]

\* the duplicate test written with findLastIndex
findLastIndex(self, link) == Max({i \in 1..Len(self) : self[i].link = link})

\* Array.prototype.findIndex(r => r.link === link), 1-based
findIndex(self, link) == Min({i \in 1..Len(self) : self[i].link = link})

FilterSeq(s, keep(_, _)) ==
  LET F[i \in 0..Len(s)] ==
        IF i = 0 THEN <<>>
        ELSE IF keep(s[i], i) THEN Append(F[i - 1], s[i]) ELSE F[i - 1]
  IN F[Len(s)]

\* the predicate of allResults.filter((result, index, self) => ...)
keepResult(self, result, index) ==
  LET isDuplicate == index # findIndex(self, result.link)
      url == toLowerCase(result.link)
      domain == toLowerCase(result.displayLink)
      isExcluded == \E excluded \in excludeDomains :
                       includes(domain, excluded) \/ includes(url, excluded)
  IN /\ ~isDuplicate
     /\ ~isExcluded
     /\ result.title # ""
     /\ result.snippet # ""

newsResults(allResults) ==
  LET keep(result, index) == keepResult(allResults, result, index)
  IN FilterSeq(allResults, keep)

\* newsResults.slice(0, 20)
articlesToScrape(results) ==
  SubSeq(results, 1, IF Len(results) < MaxScrape THEN Len(results) ELSE MaxScrape)

\* what one search page request may produce
\* "html" and "invalid" are the two halves of the test on the body text; a
\* body with an error member may carry items as well
PageOutcomes ==
  {[kind |-> k, items |-> <<>>] : k \in {"raise", "http", "html", "invalid"}}
  \cup {[kind |-> k, items |-> it] :
          k \in {"api_error", "ok"}, it \in SeqsUpTo(RawItems, MaxPageItems)}

\* every page is written as pushing whatever items its body carried
pageContributionOfAnyBody(out) == pageResults(out.items)

\* what one iteration of the page loop pushes onto allResults
pageContribution(out) ==
  IF out.kind = "ok" THEN pageResults(out.items) ELSE <<>>

\* the iteration ends in the 500 ms delay
delayAfter(page, out) == out.kind = "ok" /\ page < NumPages

(***************************************************************************)
(* Article Fetcher: scrapeArticle                                          *)
(***************************************************************************)
\* lengths of the body extractArticleContent may hand back
ContentLens == {MinContent, MinContent + 1}

\* how one fetch may end: the request is aborted after the timeout, the
\* host answers non-2xx, the network fails, or a body is extracted
ScrapeEnds ==
  {[st |-> k, len |-> 0] : k \in {"timeout", "http", "network"}}
  \cup {[st |-> "ok", len |-> n] : n \in ContentLens}

\* the value the promise of scrapeArticle resolves to: null or an article
scrapeArticle(url, end) ==
  IF end.st = "ok"
    THEN [url |-> url, st |-> "article", len |-> end.len, why |-> "ok"]
    ELSE [url |-> url, st |-> "null", len |-> 0, why |-> end.st]

Pending(url) == [url |-> url, st |-> "pending", len |-> 0, why |-> ""]

\* the join written as a race: it resolves with the first settled promise
anySettled(fetch) ==
  Len(fetch) = 0 \/ \E i \in 1..Len(fetch) : fetch[i].st \notin {"pending", "body"}

\* Promise.allSettled(scrapePromises) resolves
allSettled(fetch) == \A i \in 1..Len(fetch) : fetch[i].st \notin {"pending", "body"}

\* the batch written as Promise.all with a throwing fetch: one failure
\* loses every article
successfulArticlesAllOrNothing(fetch) ==
  LET keep(f, i) == f.st = "article" /\ f.len > MinContent
      kept == FilterSeq(fetch, keep)
  IN IF \E i \in 1..Len(fetch) : fetch[i].st = "null"
       THEN <<>>
       ELSE [i \in 1..Len(kept) |-> [url |-> kept[i].url, len |-> kept[i].len]]

\* .filter(fulfilled && value !== null).map(value).filter(content.length > 100)
successfulArticles(fetch) ==
  LET keep(f, i) == f.st = "article" /\ f.len > MinContent
      kept == FilterSeq(fetch, keep)
  IN [i \in 1..Len(kept) |-> [url |-> kept[i].url, len |-> kept[i].len]]

(***************************************************************************)
(* Content Extractor: extractArticleContent.  An html text is described by *)
(* what the regular expressions of the extractor find in it: whether a     *)
(* <title> matches, the length of the text of the longest article/main/    *)
(* content match (0: none), the length of the joined paragraph texts       *)
(* (-1: no <p> matches) and the length of the meta description (0: none).  *)
(***************************************************************************)
NoHtml == [title |-> FALSE, article |-> 0, paragraphs |-> -1, meta |-> 0]
NoExtract == [raised |-> "", url |-> "", titled |-> FALSE, len |-> 0, source |-> ""]

Htmls ==
  [title : BOOLEAN,
   article : {0, ParagraphFallback - 1, ParagraphFallback, MaxContent + 1},
   paragraphs : {-1, 0, MetaFallback - 1, MetaFallback},
   meta : {0, MetaFallback + 1}]

\* urls the extractor may be handed: absolute, relative, without scheme, empty
Urls == {"https://www.news.example/fire", "/fire", "news.example/fire", ""}

\* new URL(url).hostname; the constructor throws a TypeError unless the
\* url is absolute
URLhostname(url) ==
  IF url = "https://www.news.example/fire" THEN "www.news.example" ELSE "TypeError"

\* hostname.replace('www.', '') on the host names of the model
stripWww(host) == IF host = "www.news.example" THEN "news.example" ELSE host

\* extractArticleContent(html, url)
extractArticleContent(html, url) ==
  LET fromArticle == html.article
      afterParagraphs ==
        IF fromArticle < ParagraphFallback /\ html.paragraphs # -1
          THEN html.paragraphs ELSE fromArticle
      content ==
        IF afterParagraphs < MetaFallback THEN html.meta ELSE afterParagraphs
      host == URLhostname(url)
  IN IF host = "TypeError"
       THEN [NoExtract EXCEPT !.raised = "TypeError"]
       ELSE [raised |-> "", url |-> url, titled |-> html.title,
             len |-> IF content > MaxContent THEN MaxContent ELSE content,
             source |-> stripWww(host)]

(***************************************************************************)
(* searchImages                                                            *)
(***************************************************************************)
\* how the image request may end: aborted after the timeout, answered
\* non-2xx, answered with text that is not JSON, with an HTML page, with an
\* API error, with no items, or with image links
ImageEnds == {"timeout", "http", "invalid", "html", "api_error", "no_items", "ok"}

\* the image search written as keeping a link when the request failed
searchImagesKeeping(creds, end) ==
  IF creds /\ end \in {"ok", "timeout"}
    THEN <<"https://cdn.example/photo.jpg">> ELSE <<>>

\* searchImages: [] without credentials and on every failure
searchImages(creds, end) ==
  IF ~creds THEN <<>>
  ELSE IF end = "ok" THEN <<"https://cdn.example/photo.jpg">>
  ELSE <<>>

(***************************************************************************)
(* State                                                                   *)
(***************************************************************************)
VARIABLES
  run,            \* per request: position and locals of its handler
  events,         \* store table events: event_id -> row
  event_details,  \* store table event_details: sequence of rows
  event_updates,  \* store table event_updates: sequence of rows
  clock,          \* the wall clock as new Date() last read it
  googleCreds     \* GOOGLE_API_KEY and GOOGLE_SEARCH_ENGINE_ID are set

vars == <<run, events, event_details, event_updates, clock, googleCreds>>

\* event ids with a row in events
EventIds == {"1"}
\* event_id values a request may carry ("" = none)
RequestEventIds == {"", "1", "9", "x"}
\* api_key values a request may carry ("" = none); API_SECRET_KEY = "secret"
Credentials == {"", "wrong", "secret"}
API_SECRET_KEY == "secret"

NoStructured ==
  [location |-> "ABSENT", details |-> "ABSENT", accused |-> "ABSENT",
   victims |-> "ABSENT", timeline |-> "ABSENT", sources |-> <<>>,
   images |-> <<>>]

NoRecord == [event_id |-> "", title |-> 0, description |-> 0, update_date |-> 0, by |-> 0]

\* a handler that is not running
IdleRun ==
  [pc |-> "idle", pipeline |-> "", method |-> "", cred |-> "", eid |-> "",
   bodyOk |-> TRUE, status |-> 0, err |-> "",
   \* arguments and result of extractArticleContent
   html |-> NoHtml, url |-> "", extracted |-> NoExtract,
   \* locals of the details pipeline
   items |-> <<>>, page |-> 0, allResults |-> <<>>, results |-> <<>>, fetch |-> <<>>,
   articles |-> <<>>, images |-> <<>>, analyzed |-> NoData,
   structured |-> NoStructured, op |-> "", tsValue |-> 0,
   \* locals of the update pipeline
   lastUpdated |-> 0, filtered |-> <<>>,
   analysis |-> [title |-> 0, description |-> 0], record |-> NoRecord,
   \* what the run has done so far
   storeReads |-> 0, searchReqs |-> 0, fetchReqs |-> 0, llmCalls |-> 0,
   detailsIssued |-> FALSE, detailsApplied |-> FALSE, detailsFailed |-> FALSE,
   updateIssued |-> FALSE, updateApplied |-> FALSE,
   tsIssued |-> FALSE, tsApplied |-> FALSE,
   \* the completion the LLM returned held a JSON object
   respHasObject |-> FALSE,
   \* Promise.allSettled has resolved
   joined |-> FALSE,
   \* the image request of the run failed
   imagesFailed |-> FALSE,
   \* what the recency-restricted search returned, and when it was filtered
   searchResults |-> <<>>, searchedAt |-> 0,
   \* the page loop step by step: requests in flight, what each page
   \* answered, and the requests, answers and delays in the order they happened
   inFlight |-> 0, outcomes |-> <<>>, pageLog |-> <<>>,
   \* which copy of processArticlesWithGroq builds the prompt, and the
   \* articles it embeds
   variant |-> "", embedded |-> <<>>,
   \* the store as the run found it
   preDetails |-> <<>>, preUpdates |-> <<>>, preTs |-> 0]

\* a handler whose response has been sent and whose locals are gone
Retired == [IdleRun EXCEPT !.pc = "done"]

Init ==
  /\ run = [r \in Runs |-> IdleRun]
  /\ events = [e \in EventIds |-> [query |-> "factory fire", last_updated |-> 0]]
  /\ event_details = <<>>
  /\ event_updates = <<>>
  /\ clock = 1
  /\ googleCreds \in BOOLEAN

Active(r) == run[r].pc \notin {"idle", "done"}

\* the error written as escaping the handler: no response is produced
RespondEscapes(r, status, err) ==
  [run[r] EXCEPT !.pc = "crashed", !.err = err]

\* NextResponse.json(..., { status }) leaves the handler
Respond(r, status, err) ==
  [run[r] EXCEPT !.pc = "done", !.status = status, !.err = err]

(***************************************************************************)
(* Environment                                                             *)
(***************************************************************************)
\* the values new Date() may return: time never runs backwards
Nows == clock..MaxClock

\* a request arrives while no other request is being served
StartRequest(r) ==
  /\ run[r].pc = "idle"
  /\ \A q \in Runs : q < r => run[q].pc = "done"
  /\ \E p \in {"details", "updates"}, m \in {"GET", "POST"},
        c \in Credentials, e \in RequestEventIds, b \in BOOLEAN :
       /\ (m = "GET" => b)
       /\ run' = [q \in Runs |->
            IF q = r
              THEN [IdleRun EXCEPT !.pc = "entry", !.pipeline = p,
                                   !.method = m, !.cred = c, !.eid = e,
                                   !.bodyOk = b,
                                   !.preDetails = event_details,
                                   !.preUpdates = event_updates,
                                   !.preTs = IF e \in EventIds
                                               THEN events[e].last_updated
                                               ELSE 0]
            ELSE IF run[q].pc = "done" THEN Retired ELSE run[q]]
  /\ UNCHANGED <<events, event_details, event_updates, clock, googleCreds>>

(***************************************************************************)
(* Details pipeline: src/app/api/search/details/route.ts                   *)
(***************************************************************************)
\* processEvent written as starting with the search, the event not loaded
processEventSkippingLoad(r) ==
  [run[r] EXCEPT !.pc = "page", !.page = 1, !.searchReqs = @ + 1]

\* processEvent up to its first await: fetchEventFromDatabase issues the read
processEventStart(r) ==
  [run[r] EXCEPT !.pc = "load", !.storeReads = @ + 1]

\* export async function GET(request)
DetailsGET(r) ==
  /\ run[r].pc = "entry" /\ run[r].pipeline = "details" /\ run[r].method = "GET"
  /\ run' = [run EXCEPT ![r] =
       IF run[r].cred = "" \/ run[r].cred # API_SECRET_KEY
         THEN Respond(r, 401, "unauthorized")
       ELSE IF run[r].eid = ""
         THEN Respond(r, 400, "event_id_required")
       ELSE processEventStart(r)]
  /\ UNCHANGED <<events, event_details, event_updates, clock, googleCreds>>

\* export async function POST(request)
DetailsPOST(r) ==
  /\ run[r].pc = "entry" /\ run[r].pipeline = "details" /\ run[r].method = "POST"
  /\ run' = [run EXCEPT ![r] =
       IF ~run[r].bodyOk
         THEN Respond(r, 500, "bad_body")
       ELSE IF run[r].eid = ""
         THEN Respond(r, 400, "event_id_required")
       ELSE processEventStart(r)]
  /\ UNCHANGED <<events, event_details, event_updates, clock, googleCreds>>

\* fetchEventFromDatabase returns; processEvent goes on into
\* searchGoogleAndScrape up to the request for page 1
LoadEvent(r) ==
  /\ run[r].pc = "load"
  /\ \E storeFails \in BOOLEAN :
       LET found == run[r].eid \in EventIds /\ ~storeFails IN
       run' = [run EXCEPT ![r] =
         IF ~found
           THEN Respond(r, 500, "event_not_found")
         ELSE IF events[run[r].eid].query = ""
           THEN Respond(r, 500, "no_query")
         ELSE IF ~googleCreds
           THEN Respond(r, 500, "credentials_not_configured")
         ELSE [run[r] EXCEPT !.pc = "page", !.page = 1, !.searchReqs = @ + 1]]
  /\ UNCHANGED <<events, event_details, event_updates, clock, googleCreds>>

\* one iteration of the page loop; after the last page the results are
\* filtered and every scrapeArticle call is started
SearchPage(r) ==
  /\ run[r].pc = "page"
  /\ \E out \in PageOutcomes :
       LET all == run[r].allResults \o pageContribution(out)
           news == newsResults(all)
           toScrape == articlesToScrape(news)
       IN run' = [run EXCEPT ![r] =
            IF run[r].page < NumPages
              THEN [run[r] EXCEPT !.allResults = all, !.page = @ + 1,
                                  !.searchReqs = @ + 1]
              ELSE [run[r] EXCEPT !.allResults = <<>>, !.results = news,
                                  !.fetch = [i \in 1..Len(toScrape) |->
                                               Pending(toScrape[i].link)],
                                  !.fetchReqs = Len(toScrape),
                                  !.pc = "fetch"]]
  /\ UNCHANGED <<events, event_details, event_updates, clock, googleCreds>>

(***************************************************************************)
(* The page loop of searchGoogleAndScrape on its own, one await at a time. *)
(***************************************************************************)
PageInit ==
  /\ run = [r \in Runs |->
              IF r = 1
                THEN [IdleRun EXCEPT !.pc = "page_req", !.pipeline = "details",
                                     !.page = 1]
                ELSE IdleRun]
  /\ events = [e \in EventIds |-> [query |-> "factory fire", last_updated |-> 0]]
  /\ event_details = <<>>
  /\ event_updates = <<>>
  /\ clock = 1
  /\ googleCreds = TRUE

\* fetch(webSearchUrl) is called for the current page
PageRequest(r) ==
  /\ run[r].pc = "page_req"
  /\ run' = [run EXCEPT ![r] =
       [run[r] EXCEPT !.pc = "page_wait", !.inFlight = @ + 1,
                      !.searchReqs = @ + 1, !.pageLog = Append(@, "req")]]
  /\ UNCHANGED <<events, event_details, event_updates, clock, googleCreds>>

\* the request settles and the rest of the iteration runs up to its next
\* await: the delay, the next request or the end of the loop
PageResponse(r) ==
  /\ run[r].pc = "page_wait"
  /\ \E out \in PageOutcomes :
       LET wait == delayAfter(run[r].page, out) IN
       run' = [run EXCEPT ![r] =
         [run[r] EXCEPT !.inFlight = @ - 1,
                        !.outcomes = Append(@, out),
                        !.pageLog = Append(@, "resp"),
                        !.allResults = @ \o pageContribution(out),
                        !.page = IF wait THEN @ ELSE @ + 1,
                        !.pc = IF wait THEN "page_delay"
                               ELSE IF run[r].page < NumPages THEN "page_req"
                               ELSE "searched"]]
  /\ UNCHANGED <<events, event_details, event_updates, clock, googleCreds>>

\* the 500 ms timer fires and the loop goes on to the next page
PageDelay(r) ==
  /\ run[r].pc = "page_delay"
  /\ run' = [run EXCEPT ![r] =
       [run[r] EXCEPT !.pageLog = Append(@, "delay"), !.page = @ + 1,
                      !.pc = "page_req"]]
  /\ UNCHANGED <<events, event_details, event_updates, clock, googleCreds>>

PageNext ==
  \/ \E r \in Runs : PageRequest(r)
  \/ \E r \in Runs : PageResponse(r)
  \/ \E r \in Runs : PageDelay(r)

PageSpec == PageInit /\ [][PageNext]_vars

(***************************************************************************)
(* The Content Extractor on its own, on any html and any url.              *)
(***************************************************************************)
ExtractInit ==
  /\ \E html \in Htmls, url \in Urls :
       run = [r \in Runs |->
                IF r = 1
                  THEN [IdleRun EXCEPT !.pc = "extract", !.pipeline = "details",
                                       !.html = html, !.url = url]
                  ELSE IdleRun]
  /\ events = [e \in EventIds |-> [query |-> "factory fire", last_updated |-> 0]]
  /\ event_details = <<>>
  /\ event_updates = <<>>
  /\ clock = 1
  /\ googleCreds = TRUE

\* the call extractArticleContent(html, url)
ExtractContent(r) ==
  /\ run[r].pc = "extract"
  /\ run' = [run EXCEPT ![r] =
       [run[r] EXCEPT !.extracted = extractArticleContent(run[r].html, run[r].url),
                      !.pc = "extracted"]]
  /\ UNCHANGED <<events, event_details, event_updates, clock, googleCreds>>

ExtractNext == \E r \in Runs : ExtractContent(r)

ExtractSpec == ExtractInit /\ [][ExtractNext]_vars

(***************************************************************************)
(* The Result Filter on its own: searchGoogleAndScrape from the items of   *)
(* the provider to the list of articles to fetch, on any list of items.    *)
(***************************************************************************)
FilterInit ==
  /\ \E items \in SeqsUpTo(ProviderItems, MaxRawLen) :
       run = [r \in Runs |->
                IF r = 1
                  THEN [IdleRun EXCEPT !.pc = "normalize", !.pipeline = "details",
                                       !.items = items]
                  ELSE IdleRun]
  /\ events = [e \in EventIds |-> [query |-> "factory fire", last_updated |-> 0]]
  /\ event_details = <<>>
  /\ event_updates = <<>>
  /\ clock = 1
  /\ googleCreds = TRUE

\* webData.items?.map(...) and allResults.push(...pageResults)
NormalizeItems(r) ==
  /\ run[r].pc = "normalize"
  /\ run' = [run EXCEPT ![r] =
       [run[r] EXCEPT !.allResults = pageResults(run[r].items), !.pc = "filter"]]
  /\ UNCHANGED <<events, event_details, event_updates, clock, googleCreds>>

\* allResults.filter(...), newsResults.slice(0, 20), scrapePromises
FilterResults(r) ==
  /\ run[r].pc = "filter"
  /\ LET news == newsResults(run[r].allResults)
         toScrape == articlesToScrape(news)
     IN run' = [run EXCEPT ![r] =
          [run[r] EXCEPT !.results = news,
                         !.fetch = [i \in 1..Len(toScrape) |->
                                      Pending(toScrape[i].link)],
                         !.fetchReqs = Len(toScrape),
                         !.pc = "filtered"]]
  /\ UNCHANGED <<events, event_details, event_updates, clock, googleCreds>>

FilterNext ==
  \/ \E r \in Runs : NormalizeItems(r)
  \/ \E r \in Runs : FilterResults(r)

FilterSpec == FilterInit /\ [][FilterNext]_vars

\* one scrapeArticle promise settles
FetchSettle(r, i) ==
  /\ i \in 1..Len(run[r].fetch)
  /\ run[r].fetch[i].st = "pending"
  /\ \E end \in ScrapeEnds :
       run' = [run EXCEPT ![r].fetch[i] = scrapeArticle(run[r].fetch[i].url, end)]
  /\ UNCHANGED <<events, event_details, event_updates, clock, googleCreds>>

\* the array Promise.allSettled resolves to: the value of every settled
\* promise (the reason of a failure was only logged by scrapeArticle)
settledValues(fetch) ==
  [i \in 1..Len(fetch) |->
     IF fetch[i].st = "pending" THEN fetch[i] ELSE [fetch[i] EXCEPT !.why = ""]]

\* await Promise.allSettled(scrapePromises) returns; the articles are
\* selected and searchImages issues its request
JoinFetches(r) ==
  /\ run[r].pc = "fetch"
  /\ allSettled(run[r].fetch)
  /\ run' = [run EXCEPT ![r] =
       [run[r] EXCEPT !.articles = successfulArticles(run[r].fetch),
                      !.fetch = settledValues(run[r].fetch),
                      !.joined = TRUE,
                      !.pc = "images", !.searchReqs = @ + 1]]
  /\ UNCHANGED <<events, event_details, event_updates, clock, googleCreds>>

\* processEvent without its check of the scraped articles
noArticlesUnchecked(articles) == FALSE

\* processEvent: if (!scrapedData.articles || scrapedData.articles.length === 0)
noArticles(articles) == Len(articles) = 0

\* searchImages returns, searchGoogleAndScrape returns, processEvent checks
\* the articles and processArticlesWithGroq issues the LLM call
imagesReturned(r, end) ==
  IF noArticles(run[r].articles)
    THEN [Respond(r, 500, "no_article_content") EXCEPT
            !.images = searchImages(googleCreds, end),
            !.imagesFailed = end \notin {"ok", "no_items"}]
    ELSE [run[r] EXCEPT !.images = searchImages(googleCreds, end),
                        !.imagesFailed = end \notin {"ok", "no_items"},
                        !.pc = "llm",
                        !.llmCalls = @ + 1]

ImageSearch(r) ==
  /\ run[r].pc = "images"
  /\ \E end \in ImageEnds : run' = [run EXCEPT ![r] = imagesReturned(r, end)]
  /\ UNCHANGED <<events, event_details, event_updates, clock, googleCreds>>

\* processEvent step 4: the URLs of the scraped articles
scrapedSourceUrls(articles) ==
  LET keep(a, i) == a.url # "" /\ a.len > MinContent
      kept == FilterSeq(articles, keep)
  IN [i \in 1..Len(kept) |-> kept[i].url]

\* the spread written last: { sources: scrapedSourceUrls, ...analyzedData }
structuredDataSpreadLast(analyzedData, articles, images) ==
  [location |-> analyzedData.location, details |-> analyzedData.details,
   accused |-> analyzedData.accused, victims |-> analyzedData.victims,
   timeline |-> analyzedData.timeline,
   sources |-> IF analyzedData.sources = "LIST" THEN <<LLMSourceUrl>>
               ELSE scrapedSourceUrls(articles),
   images |-> images]

\* { ...analyzedData, sources: scrapedSourceUrls, images: scrapedData.images }
structuredData(analyzedData, articles, images) ==
  [location |-> analyzedData.location, details |-> analyzedData.details,
   accused |-> analyzedData.accused, victims |-> analyzedData.victims,
   timeline |-> analyzedData.timeline,
   sources |-> scrapedSourceUrls(articles),
   images |-> images]

\* the completion holds a JSON object reaching from its first "{" to its
\* last "}" (what the run records about the completion it was given)
ContainsJSONObject(response) ==
  \E i, j \in 1..Len(response) :
     /\ i < j
     /\ response[i] = "{" /\ \A k \in 1..(i - 1) : response[k] # "{"
     /\ response[j] = "}" /\ \A k \in (j + 1)..Len(response) : response[k] # "}"
     /\ \A k \in (i + 1)..(j - 1) : response[k] \in MemberTokens

\* every way the LLM call may end, with what processArticlesWithGroq makes
\* of it: the call throws, or a completion arrives
LLMEnds ==
  {[res |-> processArticlesWithGroq("error", <<>>), hasObject |-> FALSE]}
  \cup {[res |-> processArticlesWithGroq("ok", response),
         hasObject |-> ContainsJSONObject(response)] : response \in LLMResponses}

\* the synthesis written with a second attempt after a failed one
afterSynthesisRetrying(r, end) ==
  IF ~end.res.ok /\ run[r].llmCalls < 2
    THEN [run[r] EXCEPT !.llmCalls = @ + 1]
  ELSE IF ~end.res.ok
    THEN [Respond(r, 500, end.res.err) EXCEPT !.respHasObject = end.hasObject]
  ELSE [run[r] EXCEPT
          !.respHasObject = end.hasObject,
          !.analyzed = end.res.data,
          !.structured = structuredData(end.res.data, run[r].articles,
                                        run[r].images),
          !.pc = "check", !.storeReads = @ + 1]

\* what processEvent does with the outcome of processArticlesWithGroq: the
\* error it threw leaves processEvent for the handler, which answers 500;
\* otherwise the data is combined and saveEventDetails issues its check
afterSynthesis(r, end) ==
  IF ~end.res.ok
    THEN [Respond(r, 500, end.res.err) EXCEPT !.respHasObject = end.hasObject]
    ELSE [run[r] EXCEPT
            !.respHasObject = end.hasObject,
            !.analyzed = end.res.data,
            !.structured = structuredData(end.res.data, run[r].articles,
                                          run[r].images),
            !.pc = "check", !.storeReads = @ + 1]

\* the LLM call returns
LLMReply(r) ==
  /\ run[r].pc = "llm"
  /\ \E end \in LLMEnds : run' = [run EXCEPT ![r] = afterSynthesis(r, end)]
  /\ UNCHANGED <<events, event_details, event_updates, clock, googleCreds>>

\* rows of event_details with this event_id
DetailsRows(table, eid) == {i \in 1..Len(table) : table[i].event_id = eid}

\* .select('event_id').eq('event_id', event_id).single(): data only when
\* exactly one row matches and the store answers
singleRow(table, eid, storeFails) ==
  ~storeFails /\ Cardinality(DetailsRows(table, eid)) = 1

\* the row saveEventDetails writes
DetailsRow(r) ==
  [event_id |-> run[r].eid,
   location |-> run[r].structured.location,
   details |-> run[r].structured.details,
   accused |-> run[r].structured.accused,
   victims |-> run[r].structured.victims,
   timeline |-> run[r].structured.timeline,
   sources |-> run[r].structured.sources,
   images |-> run[r].structured.images,
   by |-> r]

\* saveEventDetails: the existence check returns and the write is issued
SaveCheck(r) ==
  /\ run[r].pc = "check"
  /\ \E storeFails \in BOOLEAN :
       run' = [run EXCEPT ![r] =
         [run[r] EXCEPT
            !.op = IF singleRow(event_details, run[r].eid, storeFails)
                     THEN "update" ELSE "insert",
            !.detailsIssued = TRUE,
            !.pc = "write"]]
  /\ UNCHANGED <<events, event_details, event_updates, clock, googleCreds>>

\* the store applies .update({...}).eq('event_id', event_id) or .insert({...})
applyDetailsWrite(table, op, row) ==
  IF op = "update"
    THEN [i \in 1..Len(table) |->
            IF table[i].event_id = row.event_id THEN row ELSE table[i]]
    ELSE Append(table, row)

\* saveEventDetails logging saveError without throwing
afterSaveIgnoringError(r, saveError, now) ==
  [run[r] EXCEPT !.detailsApplied = ~saveError, !.detailsFailed = saveError,
                 !.tsValue = now, !.tsIssued = TRUE, !.pc = "ts"]

\* saveEventDetails swallowing saveError, the handler answering 200
afterSaveAnsweringOk(r, saveError, now) ==
  IF saveError
    THEN [Respond(r, 200, "") EXCEPT !.detailsFailed = TRUE]
    ELSE [run[r] EXCEPT !.detailsApplied = TRUE, !.tsValue = now,
                        !.tsIssued = TRUE, !.pc = "ts"]

\* what saveEventDetails does with the answer of the store: on saveError it
\* throws, otherwise it returns and updateEventTimestamp issues its write
afterSave(r, saveError, now) ==
  IF saveError
    THEN [Respond(r, 500, "save_failed") EXCEPT !.detailsFailed = TRUE]
    ELSE [run[r] EXCEPT !.detailsApplied = TRUE, !.tsValue = now,
                        !.tsIssued = TRUE, !.pc = "ts"]

\* the details write returns
SaveWrite(r) ==
  /\ run[r].pc = "write"
  /\ \E saveError \in BOOLEAN, now \in Nows :
       /\ (saveError => now = clock)
       /\ event_details' = IF saveError THEN event_details
                           ELSE applyDetailsWrite(event_details, run[r].op,
                                                  DetailsRow(r))
       /\ run' = [run EXCEPT ![r] = afterSave(r, saveError, now)]
       /\ clock' = now
  /\ UNCHANGED <<events, event_updates, googleCreds>>

\* updateEventTimestamp returns (an error is only logged); processEvent
\* returns and the handler answers 200
TimestampWrite(r) ==
  /\ run[r].pc = "ts"
  /\ \E updateError \in BOOLEAN :
       /\ events' = IF updateError THEN events
                    ELSE [events EXCEPT ![run[r].eid].last_updated = run[r].tsValue]
       /\ run' = [run EXCEPT ![r] =
            [Respond(r, 200, "") EXCEPT !.tsApplied = ~updateError]]
  /\ UNCHANGED <<event_details, event_updates, clock, googleCreds>>

(***************************************************************************)
(* The selection of the articles for the prompt on its own, in each of the *)
(* three copies of processArticlesWithGroq the repository holds.           *)
(***************************************************************************)
Variants == {"route", "part_000", "part_004"}

\* lists of articles that cleared the content threshold: most bodies are
\* short, up to two of them are as long as the extractor allows
ArticleLists ==
  {[i \in 1..n |-> [url |-> i,
                    len |-> IF i \in {a, b} THEN MaxContent ELSE MinContent + 1]] :
     n \in 0..MaxArticles, a \in 0..MaxArticles, b \in 0..MaxArticles}

\* articles.sort((a, b) => b.content.length - a.content.length): longest
\* first, articles of equal length in their order of arrival
RECURSIVE sortByLength(_)
sortByLength(articles) ==
  IF articles = <<>> THEN <<>>
  ELSE LET h == Head(articles)
           rest == sortByLength(Tail(articles))
           k == Cardinality({i \in 1..Len(rest) : rest[i].len > h.len})
       IN SubSeq(rest, 1, k) \o <<h>> \o SubSeq(rest, k + 1, Len(rest))

\* Array.prototype.slice(0, n)
slice(s, n) == SubSeq(s, 1, Min({n, Len(s)}))

\* the articles whose text becomes articleContent: the route maps every
\* article; the two other copies sort by length and keep the first 15 or 8
promptArticles(variant, articles) ==
  IF variant = "part_000" THEN slice(sortByLength(articles), PromptCapA)
  ELSE IF variant = "part_004" THEN slice(sortByLength(articles), PromptCapB)
  ELSE articles

PromptInit ==
  /\ \E v \in Variants, articles \in ArticleLists :
       run = [r \in Runs |->
                IF r = 1
                  THEN [IdleRun EXCEPT !.pc = "prompt", !.pipeline = "details",
                                       !.variant = v, !.articles = articles]
                  ELSE IdleRun]
  /\ events = [e \in EventIds |-> [query |-> "factory fire", last_updated |-> 0]]
  /\ event_details = <<>>
  /\ event_updates = <<>>
  /\ clock = 1
  /\ googleCreds = TRUE

\* processArticlesWithGroq builds articleContent
BuildPrompt(r) ==
  /\ run[r].pc = "prompt"
  /\ run' = [run EXCEPT ![r] =
       [run[r] EXCEPT !.embedded = promptArticles(run[r].variant, run[r].articles),
                      !.pc = "prompted"]]
  /\ UNCHANGED <<events, event_details, event_updates, clock, googleCreds>>

PromptNext == \E r \in Runs : BuildPrompt(r)

PromptSpec == PromptInit /\ [][PromptNext]_vars

(***************************************************************************)
(* One details run with every network call taken apart into what its      *)
(* timer, if it has one, guarantees and what only the remote side can do.  *)
(***************************************************************************)
\* an authorized GET for event 1 that has entered processEvent
LiveInit ==
  /\ run = [r \in Runs |->
              IF r = 1
                THEN [IdleRun EXCEPT !.pc = "load", !.pipeline = "details",
                                     !.method = "GET", !.cred = API_SECRET_KEY,
                                     !.eid = "1", !.storeReads = 1]
                ELSE IdleRun]
  /\ events = [e \in EventIds |-> [query |-> "factory fire", last_updated |-> 0]]
  /\ event_details = <<>>
  /\ event_updates = <<>>
  /\ clock = 1
  /\ googleCreds = TRUE

\* scrapeArticle: await fetch(url, { signal }) settles: the 10 s timer
\* aborts it, the request fails, or the response head arrives and
\* clearTimeout runs; a response that is ok goes on to await response.text()
FetchResponse(r, i) ==
  /\ run[r].pc = "fetch"
  /\ i \in 1..Len(run[r].fetch)
  /\ run[r].fetch[i].st = "pending"
  /\ \E end \in {"timeout", "http", "network", "head"} :
       run' = [run EXCEPT ![r].fetch[i] =
         IF end = "head"
           THEN [run[r].fetch[i] EXCEPT !.st = "body"]
           ELSE scrapeArticle(run[r].fetch[i].url, [st |-> end, len |-> 0])]
  /\ UNCHANGED <<events, event_details, event_updates, clock, googleCreds>>

\* scrapeArticle: await response.text() settles, with no timer running
FetchBody(r, i) ==
  /\ run[r].pc = "fetch"
  /\ i \in 1..Len(run[r].fetch)
  /\ run[r].fetch[i].st = "body"
  /\ \E end \in {e \in ScrapeEnds : e.st \in {"network", "ok"}} :
       run' = [run EXCEPT ![r].fetch[i] = scrapeArticle(run[r].fetch[i].url, end)]
  /\ UNCHANGED <<events, event_details, event_updates, clock, googleCreds>>

\* searchImages: await fetch(imageSearchUrl, { signal }) settles: the 15 s
\* timer aborts it, the response is not ok, or the response head arrives
\* and clearTimeout runs before await imageResponse.text()
ImageResponse(r) ==
  /\ run[r].pc = "images"
  /\ \E end \in {"timeout", "http", "head"} :
       run' = [run EXCEPT ![r] =
         IF end = "head" THEN [run[r] EXCEPT !.pc = "images_body"]
         ELSE imagesReturned(r, end)]
  /\ UNCHANGED <<events, event_details, event_updates, clock, googleCreds>>

\* searchImages: await imageResponse.text() settles, with no timer running
ImageBody(r) ==
  /\ run[r].pc = "images_body"
  /\ \E end \in ImageEnds \ {"timeout", "http"} :
       run' = [run EXCEPT ![r] = imagesReturned(r, end)]
  /\ UNCHANGED <<events, event_details, event_updates, clock, googleCreds>>

LiveNext ==
  \/ \E r \in Runs : LoadEvent(r)
  \/ \E r \in Runs : SearchPage(r)
  \/ \E r \in Runs : \E i \in 1..MaxScrape : FetchResponse(r, i)
  \/ \E r \in Runs : \E i \in 1..MaxScrape : FetchBody(r, i)
  \/ \E r \in Runs : JoinFetches(r)
  \/ \E r \in Runs : ImageResponse(r)
  \/ \E r \in Runs : ImageBody(r)
  \/ \E r \in Runs : LLMReply(r)
  \/ \E r \in Runs : SaveCheck(r)
  \/ \E r \in Runs : SaveWrite(r)
  \/ \E r \in Runs : TimestampWrite(r)

\* what is bound to happen: a step of the handler itself (the join), an
\* await with a running timer (the head of an article fetch, the head of the
\* image search) and the answers of the store.  Nothing obliges the search
\* provider to answer a page request, a host to finish a body, or the LLM
\* provider to answer: the code runs no timer on these awaits.
LiveFairness ==
  \A r \in Runs :
    /\ WF_vars(LoadEvent(r))
    /\ \A i \in 1..(NumPages * MaxPageItems) : WF_vars(FetchResponse(r, i))
    /\ WF_vars(JoinFetches(r))
    /\ WF_vars(ImageResponse(r))
    /\ WF_vars(SaveCheck(r))
    /\ WF_vars(SaveWrite(r))
    /\ WF_vars(TimestampWrite(r))

LiveSpec == LiveInit /\ [][LiveNext]_vars /\ LiveFairness

(***************************************************************************)
(* Update pipeline: src/app/api/search/updates/route.ts                    *)
(***************************************************************************)
\* parseInt(event_id) on the event ids of the model
parseInt(e) == IF e = "x" THEN "NaN" ELSE e

\* published dates the provider's metadata may carry
PubDates ==
  {[kind |-> "none", t |-> 0], [kind |-> "invalid", t |-> 0]}
  \cup {[kind |-> "date", t |-> t] : t \in 0..(MaxClock + 1)}

\* items of the recency-restricted search (title and snippet present)
UpdItems == {[titled |-> TRUE, publishedDate |-> d] : d \in PubDates}
            \cup {[titled |-> FALSE, publishedDate |-> [kind |-> "date", t |-> MaxClock]]}

\* parseArticleDate written without the test against new Date()
parseArticleDateAnyTime(d, now) ==
  IF d.kind \in {"none", "invalid"} THEN -1 ELSE d.t

\* parseArticleDate: null (-1) for a missing or unparseable date and for a
\* date in the future
parseArticleDate(d, now) ==
  IF d.kind = "none" THEN -1
  ELSE IF d.kind = "invalid" \/ d.t > now THEN -1
  ELSE d.t

\* the comparison written with >=
isArticleNewerOrSame(articleDate, lastUpdated) ==
  IF articleDate = -1 THEN FALSE ELSE articleDate >= lastUpdated

\* isArticleNewer(articleDate, lastUpdated)
isArticleNewer(articleDate, lastUpdated) ==
  IF articleDate = -1 THEN FALSE ELSE articleDate > lastUpdated

\* searchGoogleForUpdates: the results handed back (an error gives [])
searchGoogleForUpdates(ok, items) ==
  LET keep(item, i) == item.titled IN
  IF ok THEN FilterSeq(items, keep) ELSE <<>>

\* searchResults.filter(result => isArticleNewer(parseArticleDate(...), lastUpdated))
filteredResults(searchResults, lastUpdated, now) ==
  LET keep(result, i) ==
        isArticleNewer(parseArticleDate(result.publishedDate, now), lastUpdated)
  IN FilterSeq(searchResults, keep)

\* processEventUpdate up to its first await
processEventUpdateStart(r) ==
  IF run[r].cred = "" \/ run[r].cred # API_SECRET_KEY
    THEN Respond(r, 401, "unauthorized")
  ELSE IF run[r].eid = ""
    THEN Respond(r, 400, "event_id_required")
  ELSE IF parseInt(run[r].eid) = "NaN"
    THEN Respond(r, 400, "event_id_not_a_number")
  ELSE [run[r] EXCEPT !.pc = "u_load", !.storeReads = @ + 1]

\* export async function GET(req)
UpdatesGET(r) ==
  /\ run[r].pc = "entry" /\ run[r].pipeline = "updates" /\ run[r].method = "GET"
  /\ run' = [run EXCEPT ![r] =
       IF run[r].eid = "" \/ run[r].cred = ""
         THEN Respond(r, 400, "missing_parameters")
         ELSE processEventUpdateStart(r)]
  /\ UNCHANGED <<events, event_details, event_updates, clock, googleCreds>>

\* export async function POST(req)
UpdatesPOST(r) ==
  /\ run[r].pc = "entry" /\ run[r].pipeline = "updates" /\ run[r].method = "POST"
  /\ run' = [run EXCEPT ![r] =
       IF ~run[r].bodyOk
         THEN Respond(r, 500, "bad_body")
       ELSE IF run[r].eid = "" \/ run[r].cred = ""
         THEN Respond(r, 400, "missing_parameters")
       ELSE processEventUpdateStart(r)]
  /\ UNCHANGED <<events, event_details, event_updates, clock, googleCreds>>

\* the event row arrives; searchGoogleForUpdates issues its request
UpdLoad(r) ==
  /\ run[r].pc = "u_load"
  /\ \E storeFails \in BOOLEAN :
       LET id == parseInt(run[r].eid)
           found == id \in EventIds /\ ~storeFails IN
       run' = [run EXCEPT ![r] =
         IF ~found
           THEN Respond(r, 404, "event_not_found")
           ELSE [run[r] EXCEPT !.lastUpdated = events[id].last_updated,
                               !.pc = "u_search", !.searchReqs = @ + 1]]
  /\ UNCHANGED <<events, event_details, event_updates, clock, googleCreds>>

\* the search returns; the results are filtered by date and, when some are
\* new, analyzeWithGroq issues the LLM call
UpdSearch(r) ==
  /\ run[r].pc = "u_search"
  /\ \E ok \in BOOLEAN, items \in SeqsUpTo(UpdItems, MaxUpdResults), now \in Nows :
       /\ (~googleCreds => ~ok)
       /\ (~ok => items = <<>>)
       /\ LET searchResults == searchGoogleForUpdates(ok, items)
              new == filteredResults(searchResults, run[r].lastUpdated, now)
              seen == [run[r] EXCEPT !.searchResults = searchResults,
                                     !.searchedAt = now]
          IN run' = [run EXCEPT ![r] =
               IF Len(new) = 0
                 THEN [seen EXCEPT !.pc = "done", !.status = 200,
                                   !.err = "no_new_updates"]
                 ELSE [seen EXCEPT !.filtered = new, !.pc = "u_llm",
                                   !.llmCalls = @ + 1]]
       /\ clock' = now
  /\ UNCHANGED <<events, event_details, event_updates, googleCreds>>

\* lengths of the title and the description an analysis may carry
\* (0: the field is missing or empty)
TitleLens == {0, MaxTitle, MaxTitle + 1}
DescriptionLens == {0, MaxDescription, MaxDescription + 1}

\* analyzeWithGroq: null (FALSE) unless the completion arrived, parsed and
\* has a title and a description
analysisValid(api, title, description) ==
  api = "ok" /\ title # 0 /\ description # 0

\* the field stored as the LLM returned it
uncapped(len, n) == len

\* String.prototype.substring(0, n) on a string of the given length
capped(len, n) == IF len > n THEN n ELSE len

\* the update record built from the analysis
updateRecord(r, analysis, now) ==
  [event_id |-> parseInt(run[r].eid),
   title |-> capped(analysis.title, MaxTitle),
   description |-> capped(analysis.description, MaxDescription),
   update_date |-> now,
   by |-> r]

\* analyzeWithGroq returns; the record is built and its insert is issued
UpdLLM(r) ==
  /\ run[r].pc = "u_llm"
  /\ \E api \in {"ok", "error"}, t \in TitleLens, d \in DescriptionLens,
        now \in Nows :
       /\ (api = "error" => t = 0 /\ d = 0)
       /\ (~analysisValid(api, t, d) => now = clock)
       /\ run' = [run EXCEPT ![r] =
            IF ~analysisValid(api, t, d)
              THEN Respond(r, 500, "analysis_failed")
              ELSE [run[r] EXCEPT
                      !.analysis = [title |-> t, description |-> d],
                      !.record = updateRecord(r, [title |-> t, description |-> d], now),
                      !.updateIssued = TRUE, !.pc = "u_insert"]]
       /\ clock' = now
  /\ UNCHANGED <<events, event_details, event_updates, googleCreds>>

\* processEventUpdate going on to the watermark write whatever the insert
\* answered
afterInsertIgnoringError(r, insertError, now) ==
  [run[r] EXCEPT !.updateApplied = ~insertError, !.tsValue = now,
                 !.tsIssued = TRUE, !.pc = "u_ts"]

\* what processEventUpdate does with the answer of the insert: on
\* insertError it answers 500, otherwise it issues the watermark write
afterInsert(r, insertError, now) ==
  IF insertError
    THEN Respond(r, 500, "insert_failed")
    ELSE [run[r] EXCEPT !.updateApplied = TRUE, !.tsValue = now,
                        !.tsIssued = TRUE, !.pc = "u_ts"]

\* the insert returns
UpdInsert(r) ==
  /\ run[r].pc = "u_insert"
  /\ \E insertError \in BOOLEAN, now \in Nows :
       /\ (insertError => now = clock)
       /\ event_updates' = IF insertError THEN event_updates
                           ELSE Append(event_updates, run[r].record)
       /\ run' = [run EXCEPT ![r] = afterInsert(r, insertError, now)]
       /\ clock' = now
  /\ UNCHANGED <<events, event_details, googleCreds>>

\* the watermark write returns (an error is only logged); 200
UpdTimestamp(r) ==
  /\ run[r].pc = "u_ts"
  /\ \E updateError \in BOOLEAN :
       /\ events' = IF updateError THEN events
                    ELSE [events EXCEPT ![parseInt(run[r].eid)].last_updated =
                                          run[r].tsValue]
       /\ run' = [run EXCEPT ![r] =
            [Respond(r, 200, "") EXCEPT !.tsApplied = ~updateError]]
  /\ UNCHANGED <<event_details, event_updates, clock, googleCreds>>

(***************************************************************************)
(* Requests that overlap: every handler has reached its writes to the      *)
(* store, and the writes of the handlers interleave in any order.          *)
(***************************************************************************)
\* what the synthesis of a details run may have produced
SynthesizedData == {end.res.data : end \in {e \in LLMEnds : e.res.ok}}

\* a details run for event 1 that is about to call saveEventDetails (the
\* locals of searchGoogleAndScrape are gone), or an update run for event 1
\* that has built its record and issued the insert
RaceStarts(r) ==
  LET articles == <<[url |-> ItemA.link, len |-> MinContent + 1]>>
      found == <<[titled |-> TRUE, publishedDate |-> [kind |-> "date", t |-> 1]]>>
  IN {[IdleRun EXCEPT !.pc = "check", !.pipeline = "details", !.method = "GET",
                      !.cred = API_SECRET_KEY, !.eid = "1",
                      !.articles = articles, !.analyzed = data,
                      !.structured = structuredData(data, articles, <<>>),
                      !.respHasObject = TRUE, !.joined = TRUE,
                      !.storeReads = 2, !.searchReqs = NumPages + 1,
                      !.fetchReqs = 1, !.llmCalls = 1] : data \in SynthesizedData}
     \cup
     {[IdleRun EXCEPT !.pc = "u_insert", !.pipeline = "updates", !.method = "GET",
                      !.cred = API_SECRET_KEY, !.eid = "1",
                      !.searchResults = found, !.searchedAt = 1,
                      !.filtered = found,
                      !.analysis = [title |-> MaxTitle, description |-> MaxDescription],
                      !.record = [event_id |-> "1", title |-> MaxTitle,
                                  description |-> MaxDescription,
                                  update_date |-> 1, by |-> r],
                      !.updateIssued = TRUE,
                      !.storeReads = 1, !.searchReqs = 1, !.llmCalls = 1]}

RaceInit ==
  /\ run \in [Runs -> UNION {RaceStarts(r) : r \in Runs}]
  /\ \A r \in Runs : run[r] \in RaceStarts(r)
  /\ events = [e \in EventIds |-> [query |-> "factory fire", last_updated |-> 0]]
  /\ event_details = <<>>
  /\ event_updates = <<>>
  /\ clock = 1
  /\ googleCreds = TRUE

RaceNext ==
  \/ \E r \in Runs : SaveCheck(r)
  \/ \E r \in Runs : SaveWrite(r)
  \/ \E r \in Runs : TimestampWrite(r)
  \/ \E r \in Runs : UpdInsert(r)
  \/ \E r \in Runs : UpdTimestamp(r)

RaceSpec == RaceInit /\ [][RaceNext]_vars

(***************************************************************************)
(* Update runs for one event, one after the other, the earlier ones kept   *)
(* for comparison.                                                         *)
(***************************************************************************)
\* an authorized GET for event 1 that has entered processEventUpdate
RepeatInit ==
  /\ run = [r \in Runs |->
              IF r = 1
                THEN [IdleRun EXCEPT !.pc = "u_load", !.pipeline = "updates",
                                     !.method = "GET", !.cred = API_SECRET_KEY,
                                     !.eid = "1", !.storeReads = 1]
                ELSE IdleRun]
  /\ events = [e \in EventIds |-> [query |-> "factory fire", last_updated |-> 0]]
  /\ event_details = <<>>
  /\ event_updates = <<>>
  /\ clock = 1
  /\ googleCreds = TRUE

\* the same request is sent again once the run before it has answered
RepeatRequest(r) ==
  /\ r > 1
  /\ run[r].pc = "idle"
  /\ run[r - 1].pc = "done"
  /\ run' = [run EXCEPT ![r] =
       [IdleRun EXCEPT !.pc = "u_load", !.pipeline = "updates",
                       !.method = "GET", !.cred = API_SECRET_KEY,
                       !.eid = "1", !.storeReads = 1,
                       !.preUpdates = event_updates,
                       !.preTs = events["1"].last_updated]]
  /\ UNCHANGED <<events, event_details, event_updates, clock, googleCreds>>

RepeatNext ==
  \/ \E r \in Runs : RepeatRequest(r)
  \/ \E r \in Runs : UpdLoad(r)
  \/ \E r \in Runs : UpdSearch(r)
  \/ \E r \in Runs : UpdLLM(r)
  \/ \E r \in Runs : UpdInsert(r)
  \/ \E r \in Runs : UpdTimestamp(r)

RepeatSpec == RepeatInit /\ [][RepeatNext]_vars

UpdatesNext(r) ==
  \/ UpdatesGET(r)
  \/ UpdatesPOST(r)
  \/ UpdLoad(r)
  \/ UpdSearch(r)
  \/ UpdLLM(r)
  \/ UpdInsert(r)
  \/ UpdTimestamp(r)

DetailsNext(r) ==
  \/ DetailsGET(r)
  \/ DetailsPOST(r)
  \/ LoadEvent(r)
  \/ SearchPage(r)
  \/ \E i \in 1..MaxScrape : FetchSettle(r, i)
  \/ JoinFetches(r)
  \/ ImageSearch(r)
  \/ LLMReply(r)
  \/ SaveCheck(r)
  \/ SaveWrite(r)
  \/ TimestampWrite(r)

Next ==
  \/ \E r \in Runs : StartRequest(r)
  \/ \E r \in Runs : DetailsNext(r)
  \/ \E r \in Runs : UpdatesNext(r)

Spec == Init /\ [][Next]_vars

(***************************************************************************)
(* Properties                                                              *)
(***************************************************************************)
DetailsRun(r) == run[r].pipeline = "details"
UpdatesRun(r) == run[r].pipeline = "updates"
\* processArticlesWithGroq returned a structure
SynthOk(r) == run[r].analyzed.kind # "none"
\* the watermark of the event the run is about
Watermark(r) == events[run[r].eid].last_updated

\* C1 (as amended): in a details run the watermark write is issued exactly
\* when the synthesis step and the details write have both succeeded in
\* that run, hence only after the details write returned success; the
\* stored watermark is changed only by that write, which may itself fail
\* and is then only logged; a run that has not applied it leaves the
\* stored watermark as it found it.
C1_WatermarkIssuedIffSaved ==
  \A r \in Runs : DetailsRun(r) =>
     /\ run[r].tsIssued <=> (SynthOk(r) /\ run[r].detailsApplied)
     /\ run[r].tsApplied => run[r].tsIssued /\ Watermark(r) = run[r].tsValue
     /\ (run[r].eid \in EventIds /\ ~run[r].tsApplied)
          => Watermark(r) = run[r].preTs

\* the request carried the configured secret
Authorized(r) == run[r].cred = API_SECRET_KEY

\* C1 as stated: a finished details run has advanced the watermark if and
\* only if its synthesis step and its details write succeeded (shown on
\* the runs of requests that carry the secret).
C1_AdvancedIffSaved ==
  \A r \in Runs : (DetailsRun(r) /\ Authorized(r) /\ run[r].pc = "done") =>
     (run[r].tsApplied <=> (SynthOk(r) /\ run[r].detailsApplied))

\* a run that synthesized, saved and advanced the watermark
C1_Witness ==
  \E r \in Runs :
     /\ DetailsRun(r) /\ run[r].pc = "done" /\ run[r].status = 200
     /\ run[r].detailsApplied /\ run[r].tsApplied
     /\ Watermark(r) = run[r].tsValue /\ run[r].tsValue > run[r].preTs

\* C2: when the details write returns an error the run ends in failure, no
\* watermark write is issued, and event_details and the watermark are what
\* they were before the run.
C2_FailedSaveChangesNothing ==
  \A r \in Runs : (DetailsRun(r) /\ run[r].detailsFailed) =>
     /\ run[r].pc = "done" /\ run[r].status = 500 /\ run[r].err = "save_failed"
     /\ ~run[r].detailsApplied
     /\ ~run[r].tsIssued /\ ~run[r].tsApplied
     /\ event_details = run[r].preDetails
     /\ Watermark(r) = run[r].preTs

\* a failed details write of a run that found a record of an earlier run
C2_Witness ==
  \E r \in Runs :
     /\ DetailsRun(r) /\ run[r].detailsFailed
     /\ DetailsRows(run[r].preDetails, run[r].eid) # {}
     /\ run[r].op = "update"

\* no settled fetch of the run carries a body longer than the threshold
NoQualifyingArticle(r) ==
  \A i \in 1..Len(run[r].fetch) :
     run[r].fetch[i].st = "null"
     \/ (run[r].fetch[i].st = "article" /\ run[r].fetch[i].len <= MinContent)

\* C3: once all fetches of a run have settled with no body longer than the
\* minimum-content threshold, the run makes no LLM call, no details write
\* and no watermark write, and it ends with the no-content failure.
C3_NoContentIsFatal ==
  \A r \in Runs : (DetailsRun(r) /\ run[r].joined /\ NoQualifyingArticle(r)) =>
     /\ run[r].llmCalls = 0
     /\ ~run[r].detailsIssued /\ ~run[r].detailsApplied
     /\ ~run[r].tsIssued /\ ~run[r].tsApplied
     /\ run[r].pc \in {"images", "done"}
     /\ run[r].pc = "done" =>
          run[r].status = 500 /\ run[r].err = "no_article_content"

\* two fetches were issued, both failed, and the run ended without content
C3_Witness ==
  \E r \in Runs :
     /\ DetailsRun(r) /\ run[r].joined /\ Len(run[r].fetch) = 2
     /\ \A i \in 1..2 : run[r].fetch[i].st = "null"
     /\ run[r].pc = "done" /\ run[r].err = "no_article_content"

\* C4 as stated: a completion that holds no JSON object from its first "{"
\* to its last "}" makes the synthesis fail, the run end in failure, and
\* neither the details record nor the watermark is written (shown on the
\* runs of requests that carry the secret).
C4_NoObjectIsFatal ==
  \A r \in Runs :
     (DetailsRun(r) /\ Authorized(r) /\ run[r].llmCalls > 0
        /\ run[r].pc # "llm" /\ ~run[r].respHasObject) =>
       /\ run[r].pc = "done" /\ run[r].status = 500
       /\ ~SynthOk(r)
       /\ ~run[r].detailsIssued /\ ~run[r].tsIssued

\* the results of the update run that count as new: a valid date, not in
\* the future when filtered, strictly after the watermark the run read
NewResults(r) ==
  {i \in 1..Len(run[r].searchResults) :
     LET d == run[r].searchResults[i].publishedDate IN
       /\ d.kind = "date"
       /\ d.t <= run[r].searchedAt
       /\ d.t > run[r].lastUpdated}

\* C5: an update run whose search returned no result with a valid
\* published date strictly after lastUpdatedAt answers "no update" and
\* makes no LLM call, no EventUpdate insert and no watermark write.
C5_NothingNewShortCircuits ==
  \A r \in Runs :
     (UpdatesRun(r) /\ run[r].searchedAt > 0 /\ NewResults(r) = {}) =>
       /\ run[r].pc = "done" /\ run[r].status = 200
       /\ run[r].err = "no_new_updates"
       /\ run[r].llmCalls = 0
       /\ ~run[r].updateIssued /\ ~run[r].updateApplied
       /\ ~run[r].tsIssued /\ ~run[r].tsApplied
       /\ event_updates = run[r].preUpdates
       /\ Watermark(r) = run[r].preTs

\* the watermark is "now" and every result returned is dated earlier
C5_Witness ==
  \E r \in Runs :
     /\ UpdatesRun(r) /\ run[r].pc = "done" /\ run[r].err = "no_new_updates"
     /\ run[r].lastUpdated = run[r].searchedAt
     /\ Len(run[r].searchResults) > 0
     /\ \A i \in 1..Len(run[r].searchResults) :
          /\ run[r].searchResults[i].publishedDate.kind = "date"
          /\ run[r].searchResults[i].publishedDate.t < run[r].lastUpdated

\* URLs of the fetches of the run that produced a body above the threshold
QualifyingUrls(r) ==
  {run[r].fetch[i].url : i \in {j \in 1..Len(run[r].fetch) :
      run[r].fetch[j].st = "article" /\ run[r].fetch[j].len > MinContent}}

\* C6: the sources of every details record a run persists are exactly the
\* URLs of the articles that run fetched with a body above the threshold,
\* each once, whatever the completion held.
C6_SourcesAreFetchedUrls ==
  \A k \in 1..Len(event_details) :
     LET row == event_details[k] IN
       DetailsRun(row.by) =>
         /\ Range(row.sources) = QualifyingUrls(row.by)
         /\ Len(row.sources) = Cardinality(QualifyingUrls(row.by))
         /\ LLMSourceUrl \notin Range(row.sources)

\* a record persisted by a run whose completion carried a "sources" key and
\* one of whose two fetches gave no usable body
C6_Witness ==
  \E k \in 1..Len(event_details) :
     LET r == event_details[k].by IN
       /\ DetailsRun(r) /\ run[r].analyzed.sources = "LIST"
       /\ Len(run[r].fetch) = 2
       /\ Len(event_details[k].sources) = 1

\* C7 as stated: whatever synthesis returns has the five keys with values
\* of the declared types, strings and lists of strings, never null (shown
\* on the runs of requests that carry the secret).
C7_FieldsTyped ==
  \A r \in Runs : (DetailsRun(r) /\ Authorized(r) /\ SynthOk(r)) =>
     /\ run[r].analyzed.location \in {"STR", "EMPTYSTR"}
     /\ run[r].analyzed.details \in {"STR", "EMPTYSTR"}
     /\ run[r].analyzed.accused \in {"LIST", "EMPTYLIST"}
     /\ run[r].analyzed.victims \in {"LIST", "EMPTYLIST"}
     /\ run[r].analyzed.timeline \in {"LIST", "EMPTYLIST"}

\* C8: while a fetch of the run is pending the run stays at the join: the
\* articles are not selected, the image search is not started and no LLM
\* call is made.
C8_WaitForAll ==
  \A r \in Runs :
     (DetailsRun(r) /\ \E i \in 1..Len(run[r].fetch) : run[r].fetch[i].st = "pending") =>
       /\ run[r].pc = "fetch" /\ ~run[r].joined
       /\ run[r].articles = <<>>
       /\ run[r].searchReqs = NumPages
       /\ run[r].llmCalls = 0

\* the second fetch has produced an article while the first is pending,
\* and the run is still waiting
C8_Witness ==
  \E r \in Runs :
     /\ DetailsRun(r) /\ Len(run[r].fetch) = 2
     /\ run[r].fetch[1].st = "pending"
     /\ run[r].fetch[2].st = "article" /\ run[r].fetch[2].len > MinContent
     /\ run[r].pc = "fetch"

\* a fetch of run r settles in this step
Settles(r, i) ==
  /\ i \in 1..Len(run[r].fetch)
  /\ Len(run'[r].fetch) = Len(run[r].fetch)
  /\ run[r].fetch[i].st = "pending"
  /\ run'[r].fetch[i].st # "pending"

\* C9, the step: a fetch that times out, is answered non-2xx or hits a
\* network failure resolves to null, and the step changes neither another
\* fetch of the batch nor the position or the outcome of the run.
C9_FailureIsLocal ==
  \A r \in Runs : \A i \in 1..MaxScrape :
     Settles(r, i) =>
       /\ run'[r].fetch[i].why \in {"timeout", "http", "network"}
            => run'[r].fetch[i].st = "null"
       /\ \A j \in 1..Len(run[r].fetch) :
            j # i => run'[r].fetch[j] = run[r].fetch[j]
       /\ run'[r].pc = run[r].pc /\ run'[r].status = run[r].status

\* C9, the batch: after the join every article fetched with a body above
\* the threshold is in the batch result, in fetch order, whatever became of
\* the other fetches.
C9_ArticlesKept ==
  \A r \in Runs : (DetailsRun(r) /\ run[r].joined) =>
     LET good == {i \in 1..Len(run[r].fetch) :
                    run[r].fetch[i].st = "article" /\ run[r].fetch[i].len > MinContent}
     IN /\ Len(run[r].articles) = Cardinality(good)
        /\ \A i \in good : \E k \in 1..Len(run[r].articles) :
             run[r].articles[k].url = run[r].fetch[i].url

\* C9: a failed fetch yields null for its URL only and every article of the
\* batch is kept.
C9_FetchFailureIsolated == [][C9_FailureIsLocal]_vars /\ []C9_ArticlesKept

\* a batch of two after the join: one fetch failed, the other article kept
C9_Witness ==
  \E r \in Runs :
     /\ DetailsRun(r) /\ run[r].joined /\ Len(run[r].fetch) = 2
     /\ \E i \in 1..2 : run[r].fetch[i].st = "null"
     /\ Len(run[r].articles) = 1

\* C10 as stated, whichever refusal is sent: a request of either pipeline,
\* GET or POST, whose credential is missing or wrong is refused at the
\* entry point, and no store read, search request, LLM call or store write
\* is made for it.
C10_CredentialRequired ==
  \A r \in Runs :
     (run[r].pc \notin {"idle", "entry"} /\ run[r].pipeline # ""
        /\ ~Authorized(r)) =>
       /\ run[r].storeReads = 0 /\ run[r].searchReqs = 0
       /\ run[r].llmCalls = 0
       /\ ~run[r].detailsIssued /\ ~run[r].updateIssued /\ ~run[r].tsIssued
       /\ run[r].pc = "done" /\ run[r].status \in {400, 401, 500}

\* C11 as stated, on the case it singles out: a finished run of a request
\* that carries the secret and a well-formed event identifier with no
\* record in the store reports not-found.
C11_MissingEventIsNotFound ==
  \A r \in Runs :
     (run[r].pipeline # "" /\ Authorized(r) /\ run[r].bodyOk
        /\ run[r].eid = "9" /\ run[r].pc = "done") =>
       run[r].status = 404

\* the status codes a handler answers with
Statuses == {200, 400, 401, 404, 500}

\* C12, the step: a handler that has not answered answers at most once,
\* with a status, and a handler that has answered does nothing more.
C12_AnswersOnce ==
  \A r \in Runs :
     /\ run[r].pc = "done" => run'[r].pc = "done"
     /\ (run[r].pc # "done" /\ run'[r].pc = "done") =>
          run'[r].status \in Statuses
     /\ run'[r].pc \in {"idle", "entry", "done", "load", "page", "fetch",
                         "images", "llm", "check", "write", "ts",
                         "u_load", "u_search", "u_llm", "u_insert", "u_ts"}

\* C12, the state: a handler in progress has a next step (it is waiting for
\* an answer of the store, the provider, a host or the LLM, and every such
\* answer, a failure included, is handled), and a winding-up handler that
\* failed at some step has answered with a failure status.
C12_NeverStuck ==
  \A r \in Runs :
     /\ Active(r) => ENABLED (DetailsNext(r) \/ UpdatesNext(r))
     /\ (run[r].pc = "done" /\ run[r].err \notin {"", "no_new_updates"})
          => run[r].status \in {400, 401, 404, 500}

\* C12: whatever step fails, the failure is turned into one structured
\* response; no handler ends without a response or answers twice.
C12_FailuresAreAnswered == [][C12_AnswersOnce]_vars /\ []C12_NeverStuck

\* runs have ended in a failure of the request body, of the event load, of
\* the fetch batch, of the synthesis and of the details write
C12_Witness ==
  \E r \in Runs :
     /\ run[r].pc = "done" /\ run[r].status = 500
     /\ run[r].err = "save_failed" /\ run[r].detailsFailed

\* C13 as stated: with the search provider credentials absent no run
\* fetches an article, calls the LLM or writes to the store, and no run
\* that got as far as its search ends in success: it ends with the
\* configuration error (shown on the runs of requests that carry the
\* secret).
C13_MissingCredentialsAreFatal ==
  ~googleCreds =>
    \A r \in Runs : (run[r].pipeline # "" /\ Authorized(r)) =>
       /\ run[r].fetchReqs = 0 /\ run[r].llmCalls = 0
       /\ ~run[r].detailsIssued /\ ~run[r].updateIssued /\ ~run[r].tsIssued
       /\ (run[r].pc = "done" /\ run[r].searchReqs > 0) =>
            run[r].status = 500 /\ run[r].err = "credentials_not_configured"

\* the Result Filter has run on the items of run r
Filtered(r) == run[r].pc = "filtered"

\* C14: the output of the Result Filter is a subsequence of its input (the
\* survivors keep their relative order), no two results of the output have
\* the same link (compared exactly), and a result of the output is the
\* first result of the input with its link.
C14_FirstOccurrenceInOrder ==
  \A r \in Runs : Filtered(r) =>
     LET all == run[r].allResults
         out == run[r].results
     IN /\ \A j, k \in 1..Len(out) : j # k => out[j].link # out[k].link
        /\ \E f \in [1..Len(out) -> 1..Len(all)] :
             /\ \A j, k \in 1..Len(out) : j < k => f[j] < f[k]
             /\ \A k \in 1..Len(out) :
                  /\ out[k] = all[f[k]]
                  /\ \A i \in 1..(f[k] - 1) : all[i].link # out[k].link

\* the input held one link twice under two titles, after another result;
\* the output holds both results, the link once, under the first title
C14_Witness ==
  \E r \in Runs :
     /\ Filtered(r)
     /\ run[r].items = <<ItemB, ItemA2, ItemA>>
     /\ run[r].results = <<ItemB, ItemA2>>

\* links and display domains on a host of the denylist
SocialLinks == {ItemS.link, ItemT.link}
SocialDomains == {ItemS.displayLink, ItemF.displayLink}
OnSocialHost(item) == item.link \in SocialLinks \/ item.displayLink \in SocialDomains

\* C15: no result on a host of the denylist, by its link or by its display
\* domain, is in the output of the Result Filter, among the fetches of a
\* run or among the sources of a record.
C15_DenylistedNeverUsed ==
  /\ \A r \in Runs :
       /\ \A k \in 1..Len(run[r].results) : ~OnSocialHost(run[r].results[k])
       /\ \A k \in 1..Len(run[r].fetch) :
            /\ run[r].fetch[k].url \notin SocialLinks
            /\ run[r].fetch[k].url # ItemF.link
       /\ \A k \in 1..Len(run[r].structured.sources) :
            run[r].structured.sources[k] \notin SocialLinks \cup {ItemF.link}
  /\ \A k \in 1..Len(event_details) :
       Range(event_details[k].sources) \cap (SocialLinks \cup {ItemF.link}) = {}

\* the input held a result on a social host by its link only, one by its
\* display domain only and a news result; only the news result was kept
C15_Witness ==
  \E r \in Runs :
     /\ Filtered(r)
     /\ run[r].items = <<ItemT, ItemF, ItemA>>
     /\ run[r].results = <<ItemA>>
     /\ Len(run[r].fetch) = 1

\* C16 as stated: a result for which the provider supplied no title or no
\* snippet is not in the output of the Result Filter and is not fetched.
C16_UntitledRemoved ==
  \A r \in Runs : Filtered(r) =>
     \A i \in 1..Len(run[r].items) :
        (run[r].items[i].title = "" \/ run[r].items[i].snippet = "") =>
          /\ \A k \in 1..Len(run[r].results) :
               run[r].results[k].link # run[r].items[i].link
          /\ \A k \in 1..Len(run[r].fetch) :
               run[r].fetch[k].url # run[r].items[i].link

\* C17: searchImages gives the empty list without credentials and for
\* every failed request; a run whose image request failed has images = []
\* and, having articles, went on to the synthesis: if it ended in failure
\* the failure is one of the synthesis or of the details write, and a
\* record it persisted has images = [].
C17_ImagesAreSupplementary ==
  /\ \A end \in ImageEnds : searchImages(FALSE, end) = <<>>
  /\ \A r \in Runs : (DetailsRun(r) /\ run[r].imagesFailed) =>
       /\ run[r].images = <<>>
       /\ run[r].structured.images = <<>>
       /\ Len(run[r].articles) > 0 =>
            /\ run[r].llmCalls = 1
            /\ run[r].pc \in {"llm", "check", "write", "ts", "done"}
            /\ run[r].err \in {"", "groq_api", "no_response", "no_json_object",
                                "invalid_json", "type_error", "save_failed"}
       /\ \A k \in 1..Len(event_details) :
            event_details[k].by = r => event_details[k].images = <<>>

\* a run whose image request failed has persisted its record and answered 200
C17_Witness ==
  \E r \in Runs :
     /\ DetailsRun(r) /\ run[r].imagesFailed
     /\ run[r].pc = "done" /\ run[r].status = 200
     /\ \E k \in 1..Len(event_details) :
          event_details[k].by = r /\ event_details[k].images = <<>>

\* C18: the results an update run hands to the LLM are exactly the results
\* of its search whose published date is a valid date, not after the time
\* of the filtering and strictly after the watermark the run read, in the
\* order of the search; no other result is handed over.
C18_NewIffValidAndLater ==
  \A r \in Runs : (UpdatesRun(r) /\ run[r].searchedAt > 0) =>
     /\ Len(run[r].filtered) = Cardinality(NewResults(r))
     /\ \A i \in NewResults(r) :
          \E k \in 1..Len(run[r].filtered) :
             /\ run[r].filtered[k] = run[r].searchResults[i]
             /\ k = Cardinality({j \in NewResults(r) : j <= i})
     /\ \A k \in 1..Len(run[r].filtered) :
          LET d == run[r].filtered[k].publishedDate IN
            /\ d.kind = "date"
            /\ d.t <= run[r].searchedAt
            /\ d.t > run[r].lastUpdated
     /\ run[r].llmCalls > 0 => run[r].filtered # <<>>

\* a search that returned a result dated in the future and a result dated
\* after the watermark: only the second is handed to the LLM
C18_Witness ==
  \E r \in Runs :
     /\ UpdatesRun(r) /\ run[r].pc = "u_llm"
     /\ Len(run[r].searchResults) = 2
     /\ run[r].searchResults[1].publishedDate.kind = "date"
     /\ run[r].searchResults[1].publishedDate.t > run[r].searchedAt
     /\ run[r].filtered = <<run[r].searchResults[2]>>

\* C19, the state: every record of event_updates has a title of at most
\* 100 and a description of at most 1000 characters, and the record of a
\* run holds the analysis of that run cut to these lengths.
C19_Capped ==
  \A k \in 1..Len(event_updates) :
     LET row == event_updates[k] IN
       /\ row.title <= MaxTitle /\ row.description <= MaxDescription
       /\ UpdatesRun(row.by) =>
            /\ row.title = Min({run[row.by].analysis.title, MaxTitle})
            /\ row.description =
                 Min({run[row.by].analysis.description, MaxDescription})

\* C19, the step: a step leaves every record of event_updates in place and
\* unchanged, and adds at most one record at the end.
C19_AppendOnly ==
  /\ Len(event_updates') \in {Len(event_updates), Len(event_updates) + 1}
  /\ \A k \in 1..Len(event_updates) : event_updates'[k] = event_updates[k]

\* C19: inserted records are capped and the collection only grows.
C19_CappedAppendOnly == []C19_Capped /\ [][C19_AppendOnly]_vars

\* a second record was added after the first by a run whose analysis was
\* longer than both caps
C19_Witness ==
  /\ Len(event_updates) = 2
  /\ LET row == event_updates[2] IN
       /\ UpdatesRun(row.by)
       /\ run[row.by].analysis.title > MaxTitle
       /\ run[row.by].analysis.description > MaxDescription
       /\ row.title = MaxTitle /\ row.description = MaxDescription

\* C20 as stated: once a run has applied its details write, the store holds
\* exactly one details record for the event identifier of the run, and
\* that record is the one the run wrote, field by field (shown on the runs
\* of requests that carry the secret).
C20_OneRecordPerEvent ==
  \A r \in Runs :
     (DetailsRun(r) /\ Authorized(r) /\ run[r].detailsApplied) =>
       /\ Cardinality(DetailsRows(event_details, run[r].eid)) = 1
       /\ \A k \in DetailsRows(event_details, run[r].eid) :
            event_details[k] = DetailsRow(r)

\* C21 as stated: for every html and every url, a well-formed one or not,
\* the Content Extractor returns an article and raises no error.
C21_ExtractNeverFails ==
  \A r \in Runs : run[r].pc = "extracted" =>
     /\ run[r].extracted.raised = ""
     /\ run[r].extracted.url = run[r].url

\* the state of the run state machine a handler position belongs to:
\* 1 LOAD_EVENT, 2 SEARCH, 3 FETCH (the fan-out, its join and the image
\* search that ends searchGoogleAndScrape), 4 SYNTHESIZE, 5 PERSIST (the
\* details write and the watermark write), 6 DONE or FAILED
Phase(pc) ==
  IF pc = "load" THEN 1
  ELSE IF pc = "page" THEN 2
  ELSE IF pc \in {"fetch", "images"} THEN 3
  ELSE IF pc = "llm" THEN 4
  ELSE IF pc \in {"check", "write", "ts"} THEN 5
  ELSE IF pc = "done" THEN 6
  ELSE 0

\* the run has ended in FAILED
Failed(rec) == rec.pc = "done" /\ rec.status \in {400, 401, 404, 500}

\* C22, the step: a step of a details run stays in its state, moves to the
\* next state of LOAD_EVENT, SEARCH, FETCH, SYNTHESIZE, PERSIST, DONE, or
\* ends the run in FAILED; DONE is entered from PERSIST only and an ended
\* run does nothing more.
C22_NextStateOnly ==
  \A r \in Runs : (run[r].pipeline = "details" /\ run'[r].pipeline = "details") =>
     LET a == Phase(run[r].pc)
         b == Phase(run'[r].pc)
     IN /\ b \in {a, a + 1} \/ Failed(run'[r])
        /\ (a # 6 /\ b = 6 /\ ~Failed(run'[r])) =>
             a = 5 /\ run'[r].status = 200
        /\ a = 6 => run'[r] = run[r]

\* C22, the state: a step has started only if the steps before it have
\* succeeded, and a run that has ended is in exactly one of DONE and FAILED.
C22_StepsInOrder ==
  \A r \in Runs : DetailsRun(r) =>
     /\ Phase(run[r].pc) \in 2..5 => run[r].storeReads >= 1
     /\ Phase(run[r].pc) \in 3..5 => run[r].searchReqs >= NumPages
     /\ Phase(run[r].pc) \in 4..5 => run[r].joined /\ Len(run[r].articles) > 0
     /\ Phase(run[r].pc) = 5 => SynthOk(r) /\ run[r].llmCalls = 1
     /\ run[r].pc = "done" =>
          /\ Failed(run[r]) <=> run[r].status # 200
          /\ Failed(run[r]) <=> run[r].err # ""
          /\ run[r].status = 200 =>
               /\ run[r].storeReads = 2 /\ run[r].joined
               /\ SynthOk(r) /\ run[r].detailsApplied /\ run[r].tsIssued

\* C22: the states of a run are visited in order, one after the other, and
\* the run ends in DONE or in FAILED.
C22_StateMachine == [][C22_NextStateOnly]_vars /\ []C22_StepsInOrder

\* a run that went through every state to DONE and whose record is the
\* one in the store
C22_Witness ==
  /\ Len(event_details) = 1
  /\ \E r \in Runs :
       /\ DetailsRun(r) /\ run[r].pc = "done" /\ run[r].status = 200
       /\ run[r].storeReads = 2 /\ run[r].searchReqs = NumPages + 1
       /\ run[r].llmCalls = 1 /\ run[r].detailsApplied
       /\ event_details[1].by = r

(***************************************************************************)
(* C23, C24: the page loop                                                 *)
(***************************************************************************)
\* positions of the page log that hold a request
Requests(log) == {i \in 1..Len(log) : log[i] = "req"}

\* some entry `what` lies between the positions i and j of the log
Between(log, i, j, what) == \E k \in (i + 1)..(j - 1) : log[k] = what

\* a page request is issued only after the one before it has been answered,
\* and no two page requests of a run are in flight together
C23_OnePageAtATime ==
  \A r \in Runs :
    /\ run[r].inFlight <= 1
    /\ \A i, j \in Requests(run[r].pageLog) :
         i < j => Between(run[r].pageLog, i, j, "resp")

\* a delay lies between any two page requests of a run
C23_DelayBetweenRequests ==
  \A r \in Runs :
    \A i, j \in Requests(run[r].pageLog) :
      i < j => Between(run[r].pageLog, i, j, "delay")

\* C23: search pagination is sequential and rate-limited: page N+1 is
\* requested only after the request for page N has completed, at most one
\* page request is in flight, and an inter-page delay elapses between every
\* two consecutive page requests.
C23_SequentialAndRateLimited ==
  C23_OnePageAtATime /\ C23_DelayBetweenRequests

\* the concatenation, in page order, of the normalized items of the pages
\* that answered well
RECURSIVE KeptResults(_)
KeptResults(outs) ==
  IF outs = <<>> THEN <<>>
  ELSE (IF Head(outs).kind = "ok"
          THEN [i \in 1..Len(Head(outs).items) |-> Normalize(Head(outs).items[i])]
          ELSE <<>>) \o KeptResults(Tail(outs))

\* C24: each search page request is independently fault-tolerant: a page
\* whose request raises, answers non-2xx, answers a body that is HTML or
\* not JSON, or carries an API error contributes nothing and is skipped;
\* the remaining pages are still requested and the results of the pages
\* that succeeded are kept.
C24_FailedPagesAreSkipped ==
  \A r \in Runs :
    /\ run[r].allResults = KeptResults(run[r].outcomes)
    /\ run[r].pc \in {"page_req", "page_wait", "page_delay"} =>
         Len(run[r].outcomes) < NumPages
    /\ run[r].pc = "page_req" => run[r].searchReqs = Len(run[r].outcomes)
    /\ run[r].pc = "searched" =>
         /\ Len(run[r].outcomes) = NumPages
         /\ run[r].searchReqs = NumPages

\* the loop has ended after a first page that carried an API error besides
\* items, a second page that answered well and a third that raised
C24_Witness ==
  \E r \in Runs :
    /\ run[r].pc = "searched"
    /\ run[r].outcomes[1].kind = "api_error" /\ run[r].outcomes[1].items # <<>>
    /\ run[r].outcomes[2].kind = "ok" /\ run[r].outcomes[2].items # <<>>
    /\ run[r].outcomes[3].kind = "raise"
    /\ Len(run[r].allResults) = 1

(***************************************************************************)
(* C25: timeouts                                                           *)
(***************************************************************************)
\* C25: every network call of a run carries its own timeout, so that when
\* a remote service never answers the call is aborted and the run still
\* eventually reaches DONE or FAILED.
C25_EveryRunEnds ==
  \A r \in Runs : (run[r].pc # "idle") ~> (run[r].pc = "done")

(***************************************************************************)
(* C26: one synthesis call                                                 *)
(***************************************************************************)
\* the errors processArticlesWithGroq throws
SynthesisErrors ==
  {"groq_api", "no_response", "no_json_object", "invalid_json", "type_error"}

\* a details run never has more than one LLM call behind it, and the step
\* that takes the answer of the call either goes on to the store or ends
\* the run with status 500, without issuing another call
C26_NoSecondCall ==
  \A r \in Runs : (DetailsRun(r) /\ run'[r].pipeline = "details") =>
     /\ run'[r].llmCalls <= 1
     /\ (run[r].pc = "llm" /\ run'[r] # run[r]) =>
          /\ run'[r].llmCalls = run[r].llmCalls
          /\ \/ run'[r].pc = "check" /\ run'[r].analyzed.kind # "none"
             \/ /\ run'[r].pc = "done" /\ run'[r].status = 500
                /\ run'[r].err \in SynthesisErrors

\* a run that ended on a synthesis error has made its one call and has
\* written nothing
C26_FailureIsFatal ==
  \A r \in Runs :
    (DetailsRun(r) /\ run[r].pc = "done" /\ run[r].err \in SynthesisErrors) =>
       /\ run[r].status = 500
       /\ run[r].llmCalls = 1
       /\ ~SynthOk(r)
       /\ ~run[r].detailsIssued /\ ~run[r].tsIssued
       /\ event_details = run[r].preDetails
       /\ events[run[r].eid].last_updated = run[r].preTs

\* C26: a run issues at most one LLM synthesis call: when the call fails or
\* its output is rejected it is not retried and the failure is fatal for
\* the run.
C26_OneSynthesisCall == [][C26_NoSecondCall]_vars /\ []C26_FailureIsFatal

\* a run whose completion held no JSON object has ended with status 500
\* after its single call
C26_Witness ==
  \E r \in Runs :
    /\ DetailsRun(r) /\ run[r].pc = "done" /\ run[r].status = 500
    /\ run[r].err = "no_json_object" /\ run[r].llmCalls = 1

(***************************************************************************)
(* C27: overlapping details runs                                           *)
(***************************************************************************)
\* a step in which the details write of a run is applied leaves exactly
\* one details record for the event, the record of that run
C27_WriteLeavesOneRecord ==
  \A r \in Runs :
    (DetailsRun(r) /\ ~run[r].detailsApplied /\ run'[r].detailsApplied) =>
       /\ Cardinality(DetailsRows(event_details', run[r].eid)) = 1
       /\ \A k \in DetailsRows(event_details', run[r].eid) :
            event_details'[k] = DetailsRow(r)

\* C27: when two runs for the same event identifier overlap, in any
\* interleaving of their store reads and writes, the store holds after
\* every applied details write, hence after both runs, exactly one details
\* record for that identifier: the record of the run whose write was
\* applied last.
C27_LastWriterWins == [][C27_WriteLeavesOneRecord]_vars

(***************************************************************************)
(* C28: the articles of the prompt                                         *)
(***************************************************************************)
\* the prompt built from `articles` respects the cap n: it embeds at most n
\* of the articles, and when more than n were handed over it embeds n of
\* them, none shorter than an article left out
RespectsCap(articles, embedded, n) ==
  LET In == {embedded[i].url : i \in 1..Len(embedded)} IN
  /\ Len(embedded) <= n
  /\ \A i \in 1..Len(embedded) : \E j \in 1..Len(articles) : articles[j] = embedded[i]
  /\ Len(articles) > n =>
       /\ Cardinality(In) = n
       /\ \A i \in 1..Len(embedded), j \in 1..Len(articles) :
            articles[j].url \notin In => embedded[i].len >= articles[j].len

\* the prompts of the two copies that select respect their caps
C28_SelectingCopiesRespectCap ==
  \A r \in Runs : run[r].pc = "prompted" =>
     /\ run[r].variant = "part_000" =>
          RespectsCap(run[r].articles, run[r].embedded, PromptCapA)
     /\ run[r].variant = "part_004" =>
          RespectsCap(run[r].articles, run[r].embedded, PromptCapB)

\* C28: the number of articles embedded in the synthesis prompt never
\* exceeds the per-prompt article cap N, and when more than N articles
\* cleared the minimum-content threshold the articles embedded are the N
\* with the longest bodies (N being one of the caps the source configures).
C28_PromptIsCapped ==
  \A r \in Runs : run[r].pc = "prompted" =>
     \E n \in {PromptCapA, PromptCapB} :
        RespectsCap(run[r].articles, run[r].embedded, n)

(***************************************************************************)
(* C29: the watermark over time                                            *)
(***************************************************************************)
\* no step lowers the stored watermark of an event
C29_NoStepLowersWatermark ==
  \A e \in EventIds : events'[e].last_updated >= events[e].last_updated

\* C29: the stored lastUpdatedAt of an event never decreases, across any
\* sequence and any interleaving of details runs and update runs on the
\* same event: each watermark write leaves a value greater than or equal to
\* the value it replaces.
C29_WatermarkNeverDecreases == [][C29_NoStepLowersWatermark]_vars

(***************************************************************************)
(* C30: the watermark of the update pipeline                               *)
(***************************************************************************)
\* rows of event_updates written by run r
UpdatesBy(table, r) == {i \in 1..Len(table) : table[i].by = r}

\* a step of an update run changes the watermark only from the position
\* after its successful insert; a step that ends the run in failure changes
\* neither the watermark nor event_updates, and the run has then written
\* nothing; a failed analysis and a failed insert end the run with 500
C30_WatermarkAfterInsert ==
  \A r \in Runs : (UpdatesRun(r) /\ run'[r] # run[r]) =>
     /\ events' # events =>
          /\ run[r].pc = "u_ts" /\ run[r].updateApplied
          /\ UpdatesBy(event_updates, r) # {}
     /\ run'[r].tsIssued => run'[r].updateApplied
     /\ (run'[r].pc = "done" /\ run'[r].status # 200) =>
          /\ events' = events /\ event_updates' = event_updates
          /\ ~run'[r].updateApplied /\ ~run'[r].tsIssued
          /\ UpdatesBy(event_updates', r) = {}
          /\ event_updates' = run'[r].preUpdates
          /\ events'[run[r].eid].last_updated = run'[r].preTs
     /\ (run[r].pc = "u_llm" /\ run'[r].pc # "u_insert") =>
          run'[r].pc = "done" /\ run'[r].status = 500
     /\ (run[r].pc = "u_insert" /\ run'[r].pc # "u_ts") =>
          run'[r].pc = "done" /\ run'[r].status = 500

\* run r repeats the run before it: that run applied its watermark write,
\* run r loaded the watermark it wrote and was given the same search results
Repeats(r) ==
  /\ r > 1
  /\ UpdatesRun(r) /\ UpdatesRun(r - 1)
  /\ run[r - 1].pc = "done" /\ run[r - 1].tsApplied
  /\ run[r].pc \in {"u_llm", "u_insert", "u_ts", "done"}
  /\ run[r].status \in {0, 200, 500}
  /\ run[r].searchResults = run[r - 1].searchResults
  /\ run[r].lastUpdated = run[r - 1].tsValue

\* a repeated run takes up none of the results the run before it could
\* take up: whatever it analyses was dated in the future when that run
\* filtered the results
C30_RepeatTakesOnlyLaterArticles ==
  \A r \in Runs : Repeats(r) =>
     \A i \in 1..Len(run[r].filtered) :
        /\ run[r].filtered[i].publishedDate.kind = "date"
        /\ run[r].filtered[i].publishedDate.t > run[r - 1].searchedAt
        /\ parseArticleDate(run[r].filtered[i].publishedDate,
                            run[r - 1].searchedAt) = -1

\* C30 (as amended): in the update pipeline the watermark is written only
\* after an EventUpdate record has been inserted successfully in the same
\* run; a run whose analysis fails or lacks a title or a description, or
\* whose insert fails, ends in failure and leaves the watermark and the
\* EventUpdate records unchanged; a run repeated over the same search
\* results after a successful watermark write takes up only results that
\* were dated in the future when the first run filtered them.
C30_WatermarkOnlyAfterInsert ==
  [][C30_WatermarkAfterInsert]_vars /\ []C30_RepeatTakesOnlyLaterArticles

\* a repeated run over results the first run took up has answered that
\* there is nothing new, one EventUpdate being stored
C30_Witness ==
  \E r \in Runs :
    /\ Repeats(r)
    /\ run[r - 1].filtered # <<>>
    /\ run[r].pc = "done" /\ run[r].err = "no_new_updates"
    /\ Len(event_updates) = 1

\* C30 as stated: when the watermark write succeeded, an immediately
\* repeated run over the same search results inserts no second EventUpdate.
C30_RepeatInsertsNothing ==
  \A r \in Runs : Repeats(r) => ~run[r].updateApplied

====
